---- MODULE Spec2Model ----
(***************************************************************************)
(* Model of two pieces of rodneyosodo/guest-components:                    *)
(*   - coco_keyprovider/src/enc_mods/kbs.rs : get_kek, register_kek        *)
(*   - tee-wasm-runner/src/main.rs          : TeeWasmRunner, main          *)
(* Byte strings are sequences of integers 0..255, text is a sequence of    *)
(* Unicode code points, paths and media types are sequences of characters  *)
(* or path components.                                                     *)
(***************************************************************************)
EXTENDS Integers, Sequences, FiniteSets, TLC

VARIABLES
    \* ---- kbs.rs: get_kek ----
    callers,        \* the tasks of the process that call get_kek
    kbsResource,    \* the bytes the broker answers a get_resource with
    kpc,            \* per caller: "idle" | "awaiting" | "done"
    kkid,           \* per caller: the kid argument of the running call
    kclient,        \* per caller: the client the running call built (0: none)
    kresult,        \* per caller: the Result of the last finished call
    kcalls,         \* per caller: calls started so far
    clientsBuilt,   \* number of KbsClient instances built in the process
    \* ---- kbs.rs: register_kek ----
    rpc,            \* "idle" | "sending" | "done"
    rkid,           \* the kid argument
    rkey,           \* the key argument
    rrequest,       \* the POST handed to the HTTP client (NoRequest before)
    rstatus,        \* the status of the response (0: none yet)
    rresult,        \* the Result returned ("none" before the return)
    \* ---- main.rs: main, TeeWasmRunner ----
    pc,             \* the stage the process is at
    args,           \* Args: invoke, wasm_args, work_dir, layer_store_path, wasm_runtime
    manifest,       \* the pulled manifest: config media type and layers
    config,         \* the pulled configuration: whether it parses, its diff_ids
    is_wasm_image,  \* line 196
    is_encrypted,   \* line 203
    route,          \* "none" | "DirectBlob" | "LayeredPull": the branch of line 213
    events,         \* the stages run so far, each with its outcome
    blobCall,       \* the layers pull_blob_stream was called with, in call order
    stream,         \* the chunks the blob stream still holds
    file,           \* the WASM file: created, chunks written, synced
    pullCall,       \* the arguments async_pull_layers was called with, in call order
    layer_metas,    \* what async_pull_layers returned
    storeDir,       \* the directory at the first layer's store path
    wasm_path,      \* the path pull_and_decrypt_wasm returned (<<>>: none)
    cmd,            \* the Commands handed to the operating system, in order
    error,          \* the error that ended the run: its kind, the path it names
    exitCode        \* the exit code of the process (-1: running)

kekVars == <<callers, kbsResource, kpc, kkid, kclient, kresult, kcalls, clientsBuilt>>
regVars == <<rpc, rkid, rkey, rrequest, rstatus, rresult>>
runVars ==
    <<pc, args, manifest, config, is_wasm_image, is_encrypted, route, events,
      blobCall, stream, file, pullCall, layer_metas, storeDir, wasm_path, cmd,
      error, exitCode>>

-----------------------------------------------------------------------------
(* Bounds of the model *)

\* longest run of whitespace atoms put before / after a broker answer
MaxWs == 1
\* tasks that call get_kek concurrently
NumCallers == 2
\* calls of get_kek each task makes
MaxCalls == 2

\* layers of a manifest
MaxLayers == 2
\* diff_ids of an image configuration
MaxDiffIds == 2
\* chunks of a blob stream
MaxChunks == 2
\* entries of a layer's store directory
MaxEntries == 2
\* --wasm-args given on the command line
MaxArgs == 2

\* if key.len() != 32  /  if decoded.len() == 32
KeyLen == 32

-----------------------------------------------------------------------------
(* Sequences *)

Last(s) == s[Len(s)]

\* the sequences over S of length at most n
RECURSIVE SeqsUpTo(_, _)
SeqsUpTo(S, n) ==
    IF n = 0 THEN { <<>> }
    ELSE SeqsUpTo(S, n - 1)
            \cup { Append(q, x) : q \in { r \in SeqsUpTo(S, n - 1) : Len(r) = n - 1 },
                                  x \in S }

\* str::contains
Contains(s, sub) ==
    \E i \in 1..(Len(s) - Len(sub) + 1) : SubSeq(s, i, i + Len(sub) - 1) = sub

\* the elements of s other than x, in order
RECURSIVE Without(_, _)
Without(s, x) ==
    IF s = <<>> THEN <<>>
    ELSE IF Head(s) = x THEN Without(Tail(s), x)
    ELSE <<Head(s)>> \o Without(Tail(s), x)

-----------------------------------------------------------------------------
(* String::from_utf8_lossy, str::trim, str::as_bytes                        *)
(* The decoder is exact for bytes below 0xF0 and above 0xF4 (one-, two-    *)
(* and three-byte sequences, an ill-formed sequence replaced by one U+FFFD  *)
(* per maximal subpart); the answers the model draws use no other byte.     *)

Replacement == 65533

IsCont(b) == b >= 128 /\ b <= 191
IsLead2(b) == b >= 194 /\ b <= 223
IsLead3(b) == b >= 224 /\ b <= 239

\* the second byte a three-byte sequence allows after lead byte b
IsSecond3(b, c) ==
    IF b = 224 THEN c >= 160 /\ c <= 191
    ELSE IF b = 237 THEN c >= 128 /\ c <= 159
    ELSE IsCont(c)

RECURSIVE Utf8Lossy(_)
Utf8Lossy(bs) ==
    IF bs = <<>> THEN <<>>
    ELSE IF Head(bs) < 128 THEN <<Head(bs)>> \o Utf8Lossy(Tail(bs))
    ELSE IF IsLead2(Head(bs)) /\ Len(bs) >= 2 /\ IsCont(bs[2])
         THEN <<(Head(bs) - 192) * 64 + (bs[2] - 128)>>
                  \o Utf8Lossy(SubSeq(bs, 3, Len(bs)))
    ELSE IF IsLead3(Head(bs)) /\ Len(bs) >= 2 /\ IsSecond3(Head(bs), bs[2])
         THEN IF Len(bs) >= 3 /\ IsCont(bs[3])
              THEN <<(Head(bs) - 224) * 4096 + (bs[2] - 128) * 64 + (bs[3] - 128)>>
                       \o Utf8Lossy(SubSeq(bs, 4, Len(bs)))
              ELSE <<Replacement>> \o Utf8Lossy(SubSeq(bs, 3, Len(bs)))
    ELSE <<Replacement>> \o Utf8Lossy(Tail(bs))

\* char::is_whitespace: the Unicode White_Space property
IsWhitespace(c) ==
    \/ c \in 9..13
    \/ c \in {32, 133, 160, 5760, 8232, 8233, 8239, 8287, 12288}
    \/ c \in 8192..8202

RECURSIVE TrimStart(_)
TrimStart(cs) ==
    IF cs # <<>> /\ IsWhitespace(Head(cs)) THEN TrimStart(Tail(cs)) ELSE cs

RECURSIVE TrimEnd(_)
TrimEnd(cs) ==
    IF cs # <<>> /\ IsWhitespace(Last(cs))
    THEN TrimEnd(SubSeq(cs, 1, Len(cs) - 1)) ELSE cs

\* the mutant of Trim: only the end is trimmed
TrimEndOnly(cs) == TrimEnd(cs)

Trim(cs) == TrimEnd(TrimStart(cs))

Utf8Char(c) ==
    IF c < 128 THEN <<c>>
    ELSE IF c < 2048 THEN <<192 + (c \div 64), 128 + (c % 64)>>
    ELSE <<224 + (c \div 4096), 128 + ((c \div 64) % 64), 128 + (c % 64)>>

RECURSIVE AsBytes(_)
AsBytes(cs) == IF cs = <<>> THEN <<>> ELSE Utf8Char(Head(cs)) \o AsBytes(Tail(cs))

-----------------------------------------------------------------------------
(* base64::engine::general_purpose::STANDARD: the RFC 4648 alphabet,        *)
(* canonical padding required, non-zero trailing bits refused.              *)

Pad == 61

B64Sym(v) ==
    IF v < 26 THEN 65 + v
    ELSE IF v < 52 THEN 97 + (v - 26)
    ELSE IF v < 62 THEN 48 + (v - 52)
    ELSE IF v = 62 THEN 43 ELSE 47

IsB64Sym(c) ==
    \/ c \in 65..90
    \/ c \in 97..122
    \/ c \in 48..57
    \/ c \in {43, 47}

B64Val(c) ==
    IF c \in 65..90 THEN c - 65
    ELSE IF c \in 97..122 THEN c - 97 + 26
    ELSE IF c \in 48..57 THEN c - 48 + 52
    ELSE IF c = 43 THEN 62 ELSE 63

RECURSIVE B64Encode(_)
B64Encode(b) ==
    IF Len(b) = 0 THEN <<>>
    ELSE IF Len(b) = 1 THEN
        <<B64Sym(b[1] \div 4), B64Sym((b[1] % 4) * 16), Pad, Pad>>
    ELSE IF Len(b) = 2 THEN
        <<B64Sym(b[1] \div 4), B64Sym((b[1] % 4) * 16 + (b[2] \div 16)),
          B64Sym((b[2] % 16) * 4), Pad>>
    ELSE
        <<B64Sym(b[1] \div 4), B64Sym((b[1] % 4) * 16 + (b[2] \div 16)),
          B64Sym((b[2] % 16) * 4 + (b[3] \div 64)), B64Sym(b[3] % 64)>>
            \o B64Encode(SubSeq(b, 4, Len(b)))

\* the number of trailing '=' (at most two count as padding)
PadCount(s) ==
    IF Len(s) >= 1 /\ Last(s) = Pad
    THEN (IF Len(s) >= 2 /\ s[Len(s) - 1] = Pad THEN 2 ELSE 1)
    ELSE 0

\* the symbols before the padding
B64Data(s) == SubSeq(s, 1, Len(s) - PadCount(s))

B64Valid(s) ==
    /\ Len(s) % 4 = 0
    /\ \A i \in 1..Len(B64Data(s)) : IsB64Sym(B64Data(s)[i])
    /\ PadCount(s) = 1 => B64Val(Last(B64Data(s))) % 4 = 0
    /\ PadCount(s) = 2 => B64Val(Last(B64Data(s))) % 16 = 0

\* the bytes of a run of symbols whose length is 0, 2 or 3 modulo 4
RECURSIVE B64Bytes(_)
B64Bytes(d) ==
    IF Len(d) < 2 THEN <<>>
    ELSE IF Len(d) = 2 THEN
        <<B64Val(d[1]) * 4 + (B64Val(d[2]) \div 16)>>
    ELSE IF Len(d) = 3 THEN
        <<B64Val(d[1]) * 4 + (B64Val(d[2]) \div 16),
          (B64Val(d[2]) % 16) * 16 + (B64Val(d[3]) \div 4)>>
    ELSE
        <<B64Val(d[1]) * 4 + (B64Val(d[2]) \div 16),
          (B64Val(d[2]) % 16) * 16 + (B64Val(d[3]) \div 4),
          (B64Val(d[3]) % 4) * 64 + B64Val(d[4])>>
            \o B64Bytes(SubSeq(d, 5, Len(d)))

\* Engine::decode: Ok(bytes) or Err(DecodeError)
B64Decode(s) ==
    IF B64Valid(s) THEN [ok |-> TRUE, bytes |-> B64Bytes(B64Data(s))]
    ELSE [ok |-> FALSE, bytes |-> <<>>]

-----------------------------------------------------------------------------
(* kbs.rs: get_kek                                                          *)

Ok(key) == [ok |-> TRUE, key |-> key, err |-> "", fields |-> {}, data |-> <<>>]

\* an anyhow error: its kind, the numbers its message prints, the text it quotes
Err(kind, fields, data) ==
    [ok |-> FALSE, key |-> <<>>, err |-> kind, fields |-> fields, data |-> data]

NoResult == Err("none", {}, <<>>)

\* the mutant of Normalize: the answer is decoded whatever its length
NormalizeAlwaysDecode(key) ==
    LET decoded == B64Decode(AsBytes(Trim(Utf8Lossy(key)))) IN
    IF ~decoded.ok
    THEN Err("base64_decode_failed", {<<"original_len", Len(key)>>},
             Trim(Utf8Lossy(key)))
    ELSE IF Len(decoded.bytes) = KeyLen THEN Ok(decoded.bytes)
    ELSE Err("invalid_length",
             {<<"original_len", Len(key)>>, <<"decoded_len", Len(decoded.bytes)>>},
             <<>>)

\* the mutant of Normalize: the decoded length is not checked
NormalizeAnyLength(key) ==
    IF Len(key) = KeyLen THEN Ok(key)
    ELSE LET decoded == B64Decode(AsBytes(Trim(Utf8Lossy(key)))) IN
         IF ~decoded.ok
         THEN Err("base64_decode_failed", {<<"original_len", Len(key)>>},
                  Trim(Utf8Lossy(key)))
         ELSE Ok(decoded.bytes)

\* lines 51-93: the key as returned, or its base64 decoding when it is 32 bytes
Normalize(key) ==
    IF Len(key) = KeyLen THEN Ok(key)
    ELSE LET key_str == Utf8Lossy(key)
             trimmed == Trim(key_str)
             decoded == B64Decode(AsBytes(trimmed))
         IN  IF ~decoded.ok
             THEN Err("base64_decode_failed", {<<"original_len", Len(key)>>}, trimmed)
             ELSE IF Len(decoded.bytes) = KeyLen THEN Ok(decoded.bytes)
             ELSE Err("invalid_length",
                      {<<"original_len", Len(key)>>,
                       <<"decoded_len", Len(decoded.bytes)>>}, <<>>)

\* kid.strip_prefix('/').unwrap_or(kid): a kid is a sequence of names and "/"
StripPrefix(kid) == IF kid # <<>> /\ Head(kid) = "/" THEN Tail(kid) ELSE kid

\* ResourceUri::try_from("kbs:///" + kid): repository/type/tag, nothing else
ResourceUriOk(kid) ==
    /\ Len(kid) = 5
    /\ kid[2] = "/" /\ kid[4] = "/"
    /\ kid[1] # "/" /\ kid[3] # "/" /\ kid[5] # "/"

Kids ==
    { <<"default", "/", "key", "/", "k1">>,
      <<"/", "default", "/", "key", "/", "k1">>,
      <<"default", "/", "k1">> }

\* ---- the answers of the broker ----

Payload(n, seed) == [i \in 1..n |-> (i * seed + seed) % 256]

PayloadSeeds == {0, 37}

PayloadLens == {0, 1, 2, 24, 31, KeyLen, 33}

\* UTF-8 of ' ', "\r\n", U+00A0
WsAtoms == { <<32>>, <<13, 10>>, <<194, 160>> }

RECURSIVE WsRuns(_)
WsRuns(n) ==
    IF n = 0 THEN { <<>> }
    ELSE WsRuns(n - 1) \cup { w \o a : w \in WsRuns(n - 1), a \in WsAtoms }

\* UTF-8 of '\n', '\t', U+000B, U+000C, U+0085, U+2003, U+3000
OtherWs == { <<10>>, <<9>>, <<11>>, <<12>>, <<194, 133>>, <<226, 128, 131>>,
             <<227, 128, 128>> }

\* base64 text of a payload between two runs of whitespace
Wrapped ==
    { [payload |-> Payload(n, s),
       bytes |-> w1 \o B64Encode(Payload(n, s)) \o w2] :
         n \in PayloadLens, s \in PayloadSeeds,
         w1 \in WsRuns(MaxWs), w2 \in WsRuns(MaxWs) }
      \cup { [payload |-> Payload(KeyLen, 37),
              bytes |-> w1 \o B64Encode(Payload(KeyLen, 37)) \o w2] :
                w1 \in OtherWs \cup { <<>> }, w2 \in OtherWs }

KeyText == B64Encode(Payload(KeyLen, 37))

ReplaceAt(s, i, c) == [s EXCEPT ![i] = c]

\* text that is no canonical base64: a foreign symbol, whitespace or padding
\* inside, an ill-formed byte, the padding cut off, non-zero trailing bits
Corrupted ==
    { ReplaceAt(KeyText, i, c) : i \in {1, 22, 43}, c \in {42, 45, 32, 255, Pad} }
        \cup { SubSeq(KeyText, 1, 43), SubSeq(KeyText, 1, 41),
               ReplaceAt(KeyText, 43, B64Sym(B64Val(KeyText[43]) + 1)),
               <<255>>, <<194>>, <<226, 128>>, <<104, 101, 108, 108, 111>>,
               KeyText \o <<133>> }

RawAnswers == { Payload(n, s) : n \in PayloadLens, s \in PayloadSeeds }

\* answers of exactly 32 bytes that are text: base64 of 21 bytes between
\* "\r\n" and U+00A0, 32 spaces, 32 ill-formed bytes
KeySizedText ==
    { <<13, 10>> \o B64Encode(Payload(21, 37)) \o <<194, 160>>,
      [i \in 1..KeyLen |-> 32],
      [i \in 1..KeyLen |-> 255] }

Responses == { w.bytes : w \in Wrapped } \cup Corrupted \cup RawAnswers \cup KeySizedText

\* the answers of the runs with several callers
FewResponses ==
    { Payload(KeyLen, 37), KeyText \o <<10>>, SubSeq(KeyText, 1, 43) }

\* lines 19-47: from the call to the await of get_resource
GetKekStart(p) ==
    /\ kpc[p] \in {"idle", "done"}
    /\ kcalls[p] < MaxCalls
    /\ kcalls' = [kcalls EXCEPT ![p] = @ + 1]
    /\ \E kid \in Kids, evidenceOk \in BOOLEAN, buildOk \in BOOLEAN :
         /\ kkid' = [kkid EXCEPT ![p] = StripPrefix(kid)]
         /\ IF ~ResourceUriOk(StripPrefix(kid)) THEN
                /\ kresult' = [kresult EXCEPT ![p] = Err("parse_resource_uri", {}, <<>>)]
                /\ kpc' = [kpc EXCEPT ![p] = "done"]
                /\ UNCHANGED <<kclient, clientsBuilt>>
            ELSE IF ~evidenceOk THEN
                /\ kresult' = [kresult EXCEPT ![p] = Err("evidence_provider", {}, <<>>)]
                /\ kpc' = [kpc EXCEPT ![p] = "done"]
                /\ UNCHANGED <<kclient, clientsBuilt>>
            ELSE IF ~buildOk THEN
                /\ kresult' = [kresult EXCEPT ![p] = Err("build_client", {}, <<>>)]
                /\ kpc' = [kpc EXCEPT ![p] = "done"]
                /\ UNCHANGED <<kclient, clientsBuilt>>
            ELSE
                /\ clientsBuilt' = clientsBuilt + 1
                /\ kclient' = [kclient EXCEPT ![p] = clientsBuilt + 1]
                /\ kresult' = [kresult EXCEPT ![p] = NoResult]
                /\ kpc' = [kpc EXCEPT ![p] = "awaiting"]
    /\ UNCHANGED <<callers, kbsResource>>
    /\ UNCHANGED <<regVars, runVars>>

\* lines 44-94: the answer of get_resource, its normalization, the return
GetKekResume(p) ==
    /\ kpc[p] = "awaiting"
    /\ \E fetched \in BOOLEAN :
         kresult' = [kresult EXCEPT ![p] =
                        IF fetched THEN Normalize(kbsResource)
                        ELSE Err("get_resource", {}, <<>>)]
    /\ kpc' = [kpc EXCEPT ![p] = "done"]
    /\ kclient' = [kclient EXCEPT ![p] = 0]
    /\ UNCHANGED <<callers, kbsResource, kkid, kcalls, clientsBuilt>>
    /\ UNCHANGED <<regVars, runVars>>

-----------------------------------------------------------------------------
(* kbs.rs: register_kek                                                     *)

KBS_URL_PATH_PREFIX == <<"kbs", "/", "v0", "/", "resource">>

\* the statuses the broker answers the POST with
Statuses == {200, 201, 400, 401, 404, 500}

\* StatusCode::is_success
IsSuccess(status) == status >= 200 /\ status <= 299

\* lines 98-123: from the call to the await of send()
RegisterKekStart ==
    /\ rpc = "idle"
    /\ \E kid \in Kids, key \in RawAnswers, signed \in BOOLEAN :
         /\ rkid' = StripPrefix(kid)
         /\ rkey' = key
         /\ IF ~signed THEN
                /\ rresult' = "err_sign"
                /\ rpc' = "done"
                /\ rrequest' = <<>>
            ELSE
                /\ rrequest' =
                      << [method |-> "POST",
                          path |-> KBS_URL_PATH_PREFIX \o <<"/">> \o StripPrefix(kid),
                          content_type |-> "application/octet-stream",
                          bearer_auth |-> TRUE,
                          body |-> key] >>
                /\ rresult' = "none"
                /\ rpc' = "sending"
    /\ UNCHANGED rstatus
    /\ UNCHANGED <<kekVars, runVars>>

\* lines 117-126: the outcome of send(), the return
RegisterKekResume ==
    /\ rpc = "sending"
    /\ \/ /\ rstatus' = 0                  \* send() failed: no response
          /\ rresult' = "err_transport"
       \/ /\ rstatus' \in Statuses          \* a response: let _ = ...; Ok(())
          /\ rresult' = "ok"
    /\ rpc' = "done"
    /\ UNCHANGED <<rkid, rkey, rrequest>>
    /\ UNCHANGED <<kekVars, runVars>>

-----------------------------------------------------------------------------
(* main.rs: what the registry, the store and the command line hold          *)

\* a WASM layer: "application/vnd.wasm.content.layer.v1+wasm"
MT_WASM ==
    <<"a", "p", "p", "l", "i", "c", "a", "t", "i", "o", "n", "/", "v", "n",
      "d", ".", "w", "a", "s", "m", ".", "c", "o", "n", "t", "e", "n", "t",
      ".", "l", "a", "y", "e", "r", ".", "v", "1", "+", "w", "a", "s",
      "m">>

\* an encrypted WASM layer: "application/vnd.wasm.content.layer.v1+wasm+encrypted"
MT_WASM_ENC ==
    <<"a", "p", "p", "l", "i", "c", "a", "t", "i", "o", "n", "/", "v", "n",
      "d", ".", "w", "a", "s", "m", ".", "c", "o", "n", "t", "e", "n", "t",
      ".", "l", "a", "y", "e", "r", ".", "v", "1", "+", "w", "a", "s", "m",
      "+", "e", "n", "c", "r", "y", "p", "t", "e", "d">>

\* an OCI layer: "application/vnd.oci.image.layer.v1.tar+gzip"
MT_TAR ==
    <<"a", "p", "p", "l", "i", "c", "a", "t", "i", "o", "n", "/", "v", "n",
      "d", ".", "o", "c", "i", ".", "i", "m", "a", "g", "e", ".", "l", "a",
      "y", "e", "r", ".", "v", "1", ".", "t", "a", "r", "+", "g", "z", "i",
      "p">>

\* an encrypted OCI layer: "application/vnd.oci.image.layer.v1.tar+gzip+encrypted"
MT_TAR_ENC ==
    <<"a", "p", "p", "l", "i", "c", "a", "t", "i", "o", "n", "/", "v", "n",
      "d", ".", "o", "c", "i", ".", "i", "m", "a", "g", "e", ".", "l", "a",
      "y", "e", "r", ".", "v", "1", ".", "t", "a", "r", "+", "g", "z", "i",
      "p", "+", "e", "n", "c", "r", "y", "p", "t", "e", "d">>

\* an OCI image configuration: "application/vnd.oci.image.config.v1+json"
MT_CONFIG ==
    <<"a", "p", "p", "l", "i", "c", "a", "t", "i", "o", "n", "/", "v", "n",
      "d", ".", "o", "c", "i", ".", "i", "m", "a", "g", "e", ".", "c", "o",
      "n", "f", "i", "g", ".", "v", "1", "+", "j", "s", "o", "n">>

\* a WASM configuration: "application/vnd.wasm.config.v1+json"
MT_CONFIG_WASM ==
    <<"a", "p", "p", "l", "i", "c", "a", "t", "i", "o", "n", "/", "v", "n",
      "d", ".", "w", "a", "s", "m", ".", "c", "o", "n", "f", "i", "g", ".",
      "v", "1", "+", "j", "s", "o", "n">>

\* contains("wasm"): "wasm"
WASM_MARKER ==
    <<"w", "a", "s", "m">>

\* contains("encrypted"): "encrypted"
ENCRYPTED_MARKER ==
    <<"e", "n", "c", "r", "y", "p", "t", "e", "d">>

LayerMediaTypes == {MT_WASM, MT_WASM_ENC, MT_TAR, MT_TAR_ENC}

ConfigMediaTypes == {MT_CONFIG, MT_CONFIG_WASM}

\* a digest is its algorithm prefix and its hex text
Digests == { <<"sha256:", "aa11">>, <<"sha256:", "bb22">> }

LayerDescs == [media_type : LayerMediaTypes, digest : Digests]

Manifests ==
    [config_media_type : ConfigMediaTypes, layers : SeqsUpTo(LayerDescs, MaxLayers)]

\* ImageConfiguration::default(): no diff_ids
DefaultConfig == [parses |-> TRUE, diff_ids |-> <<>>]

UnparsableConfig == [parses |-> FALSE, diff_ids |-> <<>>]

Configs ==
    { UnparsableConfig }
        \cup { [parses |-> TRUE, diff_ids |-> d] :
                 d \in SeqsUpTo({<<"sha256:", "d1">>, <<"sha256:", "d2">>}, MaxDiffIds) }

\* the chunks a blob stream may deliver: chunk 1, chunk 2, ...
Blobs == { [i \in 1..n |-> i] : n \in 0..MaxChunks }

\* file names: names and "." in order
MODULE_WASM == <<"module", ".", "wasm">>

FileNames ==
    { MODULE_WASM, <<"a", ".", "wasm">>, <<"b", ".", "wasm">>, <<".", "wasm">>,
      <<"a", ".", "txt">>, <<"b", ".", "WASM">> }

\* a directory entry: its name, its kind, whether reading the entry succeeds
DirEntries == [name : FileNames, kind : {"file", "dir"}, ok : BOOLEAN]

DistinctNames(es) == \A i, j \in 1..Len(es) : i # j => es[i].name # es[j].name

\* a directory: whether read_dir succeeds, its entries in enumeration order
Dirs ==
    [readable : BOOLEAN,
     entries : { es \in SeqsUpTo(DirEntries, MaxEntries) : DistinctNames(es) }]

NoDir == [readable |-> FALSE, entries |-> <<>>]

Entry(name, kind) == [name |-> name, kind |-> kind, ok |-> TRUE]

\* the store directories of the full runs
PulledDirs ==
    { [readable |-> TRUE, entries |-> <<Entry(MODULE_WASM, "file")>>],
      [readable |-> TRUE,
       entries |-> <<Entry(<<"a", ".", "txt">>, "file"), Entry(<<"b", ".", "wasm">>, "file")>>],
      NoDir }

WORK_DIR == << <<"tmp">>, <<"tee-wasm-runner">> >>

LAYER_STORE_PATH == << <<"tmp">>, <<"tee-wasm-runner">>, <<"layers">> >>

ArgsOf(invoke, wasm_args) ==
    [invoke |-> invoke, wasm_args |-> wasm_args, work_dir |-> WORK_DIR,
     layer_store_path |-> LAYER_STORE_PATH, wasm_runtime |-> "wasmtime"]

\* an Option<String> is <<>> (None) or <<s>> (Some(s))
InvokeTargets == { <<>>, << <<"main">> >> }

ArgWords == { <<"1">>, <<"2">>, <<"--dir">> }

AllArgs == { ArgsOf(i, w) : i \in InvokeTargets, w \in SeqsUpTo(ArgWords, MaxArgs) }

\* the command lines of the full runs
RunnerArgs == { ArgsOf(<<>>, <<>>), ArgsOf(<< <<"main">> >>, << <<"1">>, <<"2">> >>) }

NoManifest == [config_media_type |-> <<>>, layers |-> <<>>]

NoFile == [created |-> FALSE, chunks |-> <<>>, synced |-> FALSE]

-----------------------------------------------------------------------------
(* main.rs: paths                                                           *)

\* PathBuf::join
Join(path, name) == Append(path, name)

\* the text of a path: its components after "/"
RECURSIVE PathText(_)
PathText(path) ==
    IF path = <<>> THEN <<>> ELSE <<"/">> \o Head(path) \o PathText(Tail(path))

\* the position of the last "." of a name (0: none)
RECURSIVE LastDot(_)
LastDot(name) ==
    IF name = <<>> THEN 0
    ELSE IF Last(name) = "." THEN Len(name)
    ELSE LastDot(SubSeq(name, 1, Len(name) - 1))

\* Path::extension: None (<<>>) without a ".", or when the only "." leads the
\* name; else Some(the text after the last ".")
Extension(path) ==
    LET name == Last(path)
        dot == LastDot(name)
    IN  IF name = <<".", ".">> \/ dot <= 1 THEN <<>>
        ELSE << SubSeq(name, dot + 1, Len(name)) >>

-----------------------------------------------------------------------------
(* main.rs: TeeWasmRunner::pull_and_decrypt_wasm, its pure parts            *)

\* lines 196-200
IsWasmImage(m) ==
    \/ Contains(m.config_media_type, WASM_MARKER)
    \/ \E i \in 1..Len(m.layers) : Contains(m.layers[i].media_type, WASM_MARKER)

\* lines 203-206
IsEncrypted(m) ==
    \E i \in 1..Len(m.layers) : Contains(m.layers[i].media_type, ENCRYPTED_MARKER)


\* the mutant of Route: encryption is not looked at
RouteByWasmOnly(wasm, encrypted) == IF wasm THEN "DirectBlob" ELSE "LayeredPull"

\* line 213
Route(wasm, encrypted) == IF wasm /\ ~encrypted THEN "DirectBlob" ELSE "LayeredPull"

\* line 235: format!("{}.wasm", digest.replace("sha256:", ""))
WasmFilename(digest) == Without(digest, "sha256:") \o <<".", "wasm">>

\* lines 266-274: from_reader(..).unwrap_or_else(|e| ImageConfiguration::default())
ImageConfig(c) == IF c.parses THEN c ELSE DefaultConfig


\* the mutant of DiffIdsVec: the digest stands in for encrypted layers too
DiffIdsVecDigestOnly(image_config, layers, encrypted) ==
    IF image_config.diff_ids = <<>> /\ layers # <<>>
    THEN [i \in 1..Len(layers) |-> layers[i].digest]
    ELSE image_config.diff_ids

\* lines 276-301
DiffIdsVec(image_config, layers, encrypted) ==
    IF image_config.diff_ids = <<>> /\ layers # <<>>
    THEN [i \in 1..Len(layers) |-> IF encrypted THEN <<>> ELSE layers[i].digest]
    ELSE image_config.diff_ids


\* the mutant of DecryptConfig: no decryption configuration is ever passed
DecryptConfigNone(encrypted) == <<>>

\* lines 308-321: Some("provider:attestation-agent") or None
DecryptConfig(encrypted) ==
    IF encrypted THEN <<"provider:attestation-agent">> ELSE <<>>

\* the entries read_dir yields: line 355-356
RECURSIVE OkEntries(_)
OkEntries(es) ==
    IF es = <<>> THEN <<>>
    ELSE IF Head(es).ok THEN <<Head(es)>> \o OkEntries(Tail(es))
    ELSE OkEntries(Tail(es))

ReadDir(dir) == IF dir.readable THEN OkEntries(dir.entries) ELSE <<>>

\* Path::exists() && Path::is_file() of a direct entry of the directory
IsFile(dir, name) ==
    \E i \in 1..Len(dir.entries) :
        dir.entries[i].name = name /\ dir.entries[i].kind = "file"

\* lines 367-377: the first entry that is a file with extension "wasm"
RECURSIVE FirstWasm(_, _, _)
FirstWasm(store_path, dir, files) ==
    IF files = <<>> THEN <<>>
    ELSE IF /\ IsFile(dir, Head(files).name)
            /\ Extension(Join(store_path, Head(files).name)) = << <<"wasm">> >>
         THEN << Join(store_path, Head(files).name) >>
    ELSE FirstWasm(store_path, dir, Tail(files))

Found(path) == [ok |-> TRUE, path |-> path, err |-> ""]

NotFound(kind, path) == [ok |-> FALSE, path |-> path, err |-> kind]


\* the mutant of Locate: the directory is searched without trying module.wasm
LocateBySearchOnly(store_path, dir) ==
    IF FirstWasm(store_path, dir, ReadDir(dir)) # <<>>
    THEN Found(Head(FirstWasm(store_path, dir, ReadDir(dir))))
    ELSE NotFound("no_wasm_file_found", store_path)

\* lines 341-383: the module in the directory at store_path
Locate(store_path, dir) ==
    IF IsFile(dir, MODULE_WASM) THEN Found(Join(store_path, MODULE_WASM))
    ELSE IF FirstWasm(store_path, dir, ReadDir(dir)) # <<>>
         THEN Found(Head(FirstWasm(store_path, dir, ReadDir(dir))))
    ELSE NotFound("no_wasm_file_found", store_path)


\* the mutant of RunWasmArgs: the user arguments come before the module path
RunWasmArgsBeforeModule(a, path) ==
    (IF a.invoke # <<>> THEN << <<"--invoke">>, Head(a.invoke) >> ELSE <<>>)
        \o << <<"--dir">>, PathText(a.work_dir) >>
        \o a.wasm_args
        \o << PathText(path) >>

\* lines 393-407: the arguments of the Command, each the text it is passed as
RunWasmArgs(a, path) ==
    (IF a.invoke # <<>> THEN << <<"--invoke">>, Head(a.invoke) >> ELSE <<>>)
        \o << <<"--dir">>, PathText(a.work_dir), PathText(path) >>
        \o a.wasm_args

-----------------------------------------------------------------------------
(* main.rs: the run, stage by stage                                         *)

NoError == [kind |-> "", path |-> <<>>]

Event(stage, ok) == [stage |-> stage, ok |-> ok]


\* the mutant of Abort: the error is logged and the process ends normally
AbortLogged(stage, kind, path) ==
    /\ events' = Append(events, Event(stage, FALSE))
    /\ error' = [kind |-> kind, path |-> path]
    /\ pc' = "exited"
    /\ exitCode' = 0

\* an Err reaches main: line 472-475 (exit(1)), or main itself returns Err
Abort(stage, kind, path) ==
    /\ events' = Append(events, Event(stage, FALSE))
    /\ error' = [kind |-> kind, path |-> path]
    /\ pc' = "exited"
    /\ exitCode' = 1

Advance(stage, next) ==
    /\ events' = Append(events, Event(stage, TRUE))
    /\ pc' = next
    /\ UNCHANGED <<error, exitCode>>

\* lines 462-467
CreateDirs ==
    /\ pc = "main"
    /\ \/ Advance("create_dirs", "new")
       \/ Abort("create_dirs", "create_dir_all", <<>>)
    /\ UNCHANGED <<args, manifest, config, is_wasm_image, is_encrypted, route,
                   blobCall, stream, file, pullCall, layer_metas, storeDir,
                   wasm_path, cmd>>
    /\ UNCHANGED <<kekVars, regVars>>

\* lines 470, 77-86
NewRunner ==
    /\ pc = "new"
    /\ \/ Advance("new", "evidence")
       \/ Abort("new", "attestation_agent", <<>>)
    /\ UNCHANGED <<args, manifest, config, is_wasm_image, is_encrypted, route,
                   blobCall, stream, file, pullCall, layer_metas, storeDir,
                   wasm_path, cmd>>
    /\ UNCHANGED <<kekVars, regVars>>

\* lines 435-446
GetEvidence ==
    /\ pc = "evidence"
    /\ \/ Advance("evidence", "pull_init")
       \/ Abort("evidence", "get_evidence", <<>>)
    /\ UNCHANGED <<args, manifest, config, is_wasm_image, is_encrypted, route,
                   blobCall, stream, file, pullCall, layer_metas, storeDir,
                   wasm_path, cmd>>
    /\ UNCHANGED <<kekVars, regVars>>

\* lines 169-185
PullInit ==
    /\ pc = "pull_init"
    /\ \/ Advance("pull_init", "pull_manifest")
       \/ Abort("pull_init", "pull_client", <<>>)
    /\ UNCHANGED <<args, manifest, config, is_wasm_image, is_encrypted, route,
                   blobCall, stream, file, pullCall, layer_metas, storeDir,
                   wasm_path, cmd>>
    /\ UNCHANGED <<kekVars, regVars>>

\* lines 188-193
PullManifest ==
    /\ pc = "pull_manifest"
    /\ \/ /\ \E m \in Manifests, c \in Configs : manifest' = m /\ config' = c
          /\ Advance("pull_manifest", "classify")
       \/ /\ Abort("pull_manifest", "pull_manifest", <<>>)
          /\ UNCHANGED <<manifest, config>>
    /\ UNCHANGED <<args, is_wasm_image, is_encrypted, route, blobCall, stream,
                   file, pullCall, layer_metas, storeDir, wasm_path, cmd>>
    /\ UNCHANGED <<kekVars, regVars>>

\* lines 195-213, 258
Classify ==
    /\ pc = "classify"
    /\ is_wasm_image' = IsWasmImage(manifest)
    /\ is_encrypted' = IsEncrypted(manifest)
    /\ route' = Route(IsWasmImage(manifest), IsEncrypted(manifest))
    /\ pc' = IF Route(IsWasmImage(manifest), IsEncrypted(manifest)) = "DirectBlob"
             THEN "blob" ELSE "layers"
    /\ UNCHANGED <<args, manifest, config, events, blobCall, stream, file,
                   pullCall, layer_metas, storeDir, wasm_path, cmd, error, exitCode>>
    /\ UNCHANGED <<kekVars, regVars>>

\* lines 216-232
PullBlobStream ==
    /\ pc = "blob"
    /\ IF manifest.layers = <<>> THEN
          /\ Abort("first_layer", "no_layers_in_wasm_image", <<>>)
          /\ UNCHANGED <<blobCall, stream>>
       ELSE
          /\ blobCall' = Append(blobCall, Head(manifest.layers))
          /\ \/ /\ stream' \in Blobs
                /\ Advance("pull_blob_stream", "create_file")
             \/ /\ Abort("pull_blob_stream", "pull_wasm_blob", <<>>)
                /\ UNCHANGED stream
    /\ UNCHANGED <<args, manifest, config, is_wasm_image, is_encrypted, route,
                   file, pullCall, layer_metas, storeDir, wasm_path, cmd>>
    /\ UNCHANGED <<kekVars, regVars>>

\* lines 235-242
CreateFile ==
    /\ pc = "create_file"
    /\ \/ /\ file' = [file EXCEPT !.created = TRUE]
          /\ Advance("create_file", "stream")
       \/ /\ Abort("create_file", "create_wasm_file", <<>>)
          /\ UNCHANGED file
    /\ UNCHANGED <<args, manifest, config, is_wasm_image, is_encrypted, route,
                   blobCall, stream, pullCall, layer_metas, storeDir, wasm_path, cmd>>
    /\ UNCHANGED <<kekVars, regVars>>

\* lines 246-251: one turn of the loop
NextChunk ==
    /\ pc = "stream"
    /\ stream # <<>>
    /\ \/ /\ file' = [file EXCEPT !.chunks = Append(@, Head(stream))]
          /\ stream' = Tail(stream)
          /\ Advance("chunk", "stream")
       \/ /\ Abort("chunk", "read_blob_chunk", <<>>)
          /\ UNCHANGED <<file, stream>>
       \/ /\ Abort("chunk", "write_wasm_chunk", <<>>)
          /\ stream' = Tail(stream)
          /\ UNCHANGED file
    /\ UNCHANGED <<args, manifest, config, is_wasm_image, is_encrypted, route,
                   blobCall, pullCall, layer_metas, storeDir, wasm_path, cmd>>
    /\ UNCHANGED <<kekVars, regVars>>

\* the mutant of SyncAll: the path is returned without waiting for the
\* stream to end
SyncAllEarly ==
    /\ pc = "stream"
    /\ \/ /\ file' = [file EXCEPT !.synced = TRUE]
          /\ wasm_path' = Join(args.layer_store_path,
                               WasmFilename(Head(manifest.layers).digest))
          /\ Advance("sync_all", "run_wasm")
       \/ /\ Abort("sync_all", "sync_wasm_file", <<>>)
          /\ UNCHANGED <<file, wasm_path>>
    /\ UNCHANGED <<args, manifest, config, is_wasm_image, is_encrypted, route,
                   blobCall, stream, pullCall, layer_metas, storeDir, cmd>>
    /\ UNCHANGED <<kekVars, regVars>>

\* lines 246, 253-257: the stream ended
SyncAll ==
    /\ pc = "stream"
    /\ stream = <<>>
    /\ \/ /\ file' = [file EXCEPT !.synced = TRUE]
          /\ wasm_path' = Join(args.layer_store_path,
                               WasmFilename(Head(manifest.layers).digest))
          /\ Advance("sync_all", "run_wasm")
       \/ /\ Abort("sync_all", "sync_wasm_file", <<>>)
          /\ UNCHANGED <<file, wasm_path>>
    /\ UNCHANGED <<args, manifest, config, is_wasm_image, is_encrypted, route,
                   blobCall, stream, pullCall, layer_metas, storeDir, cmd>>
    /\ UNCHANGED <<kekVars, regVars>>

\* lines 262-330: the configuration, the diff_ids, the call of async_pull_layers
PrepareLayers ==
    /\ pc = "layers"
    /\ events' = Append(events, Event("config_parse", config.parses))
    /\ pullCall' = Append(pullCall,
                          [layers |-> manifest.layers,
                           diff_ids |-> DiffIdsVec(ImageConfig(config), manifest.layers,
                                                   is_encrypted),
                           decrypt_config |-> DecryptConfig(is_encrypted)])
    /\ pc' = "pull_layers"
    /\ UNCHANGED <<args, manifest, config, is_wasm_image, is_encrypted, route,
                   blobCall, stream, file, layer_metas, storeDir, wasm_path, cmd,
                   error, exitCode>>
    /\ UNCHANGED <<kekVars, regVars>>

\* the store path the layer store gives a layer
StorePath(layer) == Join(args.layer_store_path, <<layer.digest[2]>>)

\* lines 324-332: what async_pull_layers returns
AsyncPullLayers ==
    /\ pc = "pull_layers"
    /\ \/ /\ layer_metas' = [i \in 1..Len(manifest.layers) |->
                                [store_path |-> StorePath(manifest.layers[i])]]
          /\ IF manifest.layers = <<>> THEN storeDir' = NoDir
             ELSE storeDir' \in PulledDirs
          /\ Advance("pull_layers", "locate")
       \/ /\ Abort("pull_layers", "pull_and_decrypt_layers", <<>>)
          /\ UNCHANGED <<layer_metas, storeDir>>
    /\ UNCHANGED <<args, manifest, config, is_wasm_image, is_encrypted, route,
                   blobCall, stream, file, pullCall, wasm_path, cmd>>
    /\ UNCHANGED <<kekVars, regVars>>

\* lines 334-384
LocateModule ==
    /\ pc = "locate"
    /\ IF layer_metas = <<>> THEN
          /\ Abort("locate", "no_layers_in_image", <<>>)
          /\ UNCHANGED wasm_path
       ELSE LET found == Locate(Head(layer_metas).store_path, storeDir) IN
          IF found.ok THEN
             /\ wasm_path' = found.path
             /\ Advance("locate", "run_wasm")
          ELSE
             /\ Abort("locate", found.err, found.path)
             /\ UNCHANGED wasm_path
    /\ UNCHANGED <<args, manifest, config, is_wasm_image, is_encrypted, route,
                   blobCall, stream, file, pullCall, layer_metas, storeDir, cmd>>
    /\ UNCHANGED <<kekVars, regVars>>

\* lines 388-432, 452-454, 477
RunWasm ==
    /\ pc = "run_wasm"
    /\ cmd' = Append(cmd, [program |-> args.wasm_runtime,
                           args |-> RunWasmArgs(args, wasm_path)])
    /\ \/ Abort("run_wasm", "execute_wasm_runtime", <<>>)
       \/ Abort("run_wasm", "wasm_exit_code", <<>>)
       \/ /\ events' = Append(events, Event("run_wasm", TRUE))
          /\ pc' = "exited"
          /\ exitCode' = 0
          /\ UNCHANGED error
    /\ UNCHANGED <<args, manifest, config, is_wasm_image, is_encrypted, route,
                   blobCall, stream, file, pullCall, layer_metas, storeDir,
                   wasm_path>>
    /\ UNCHANGED <<kekVars, regVars>>

-----------------------------------------------------------------------------
(* Initial states and specifications                                        *)

RunIdle ==
    /\ pc = "off"
    /\ args = ArgsOf(<<>>, <<>>)
    /\ manifest = NoManifest
    /\ config = UnparsableConfig
    /\ is_wasm_image = FALSE
    /\ is_encrypted = FALSE
    /\ route = "none"
    /\ events = <<>>
    /\ blobCall = <<>>
    /\ stream = <<>>
    /\ file = NoFile
    /\ pullCall = <<>>
    /\ layer_metas = <<>>
    /\ storeDir = NoDir
    /\ wasm_path = <<>>
    /\ cmd = <<>>
    /\ error = NoError
    /\ exitCode = -1

KekIdle ==
    /\ kpc = [p \in callers |-> "idle"]
    /\ kkid = [p \in callers |-> <<>>]
    /\ kclient = [p \in callers |-> 0]
    /\ kresult = [p \in callers |-> NoResult]
    /\ kcalls = [p \in callers |-> 0]
    /\ clientsBuilt = 0

RegIdle ==
    /\ rpc = "idle"
    /\ rkid = <<>>
    /\ rkey = <<>>
    /\ rrequest = <<>>
    /\ rstatus = 0
    /\ rresult = "none"

NoCallers ==
    /\ callers = {}
    /\ kbsResource = <<>>
    /\ KekIdle

InitKek ==
    /\ callers = {1}
    /\ kbsResource \in Responses
    /\ KekIdle
    /\ RegIdle
    /\ RunIdle

InitFetch ==
    /\ callers = 1..NumCallers
    /\ kbsResource \in FewResponses
    /\ KekIdle
    /\ RegIdle
    /\ RunIdle

NextKek ==
    \/ \E p \in callers : GetKekStart(p)
    \/ \E p \in callers : GetKekResume(p)

InitReg ==
    /\ NoCallers
    /\ RegIdle
    /\ RunIdle

NextReg == RegisterKekStart \/ RegisterKekResume

\* the process starts: main, line 459
Init ==
    /\ NoCallers
    /\ RegIdle
    /\ pc = "main"
    /\ args \in RunnerArgs
    /\ manifest = NoManifest
    /\ config = UnparsableConfig
    /\ is_wasm_image = FALSE
    /\ is_encrypted = FALSE
    /\ route = "none"
    /\ events = <<>>
    /\ blobCall = <<>>
    /\ stream = <<>>
    /\ file = NoFile
    /\ pullCall = <<>>
    /\ layer_metas = <<>>
    /\ storeDir = NoDir
    /\ wasm_path = <<>>
    /\ cmd = <<>>
    /\ error = NoError
    /\ exitCode = -1

Next ==
    \/ CreateDirs
    \/ NewRunner
    \/ GetEvidence
    \/ PullInit
    \/ PullManifest
    \/ Classify
    \/ PullBlobStream
    \/ CreateFile
    \/ NextChunk
    \/ SyncAll
    \/ PrepareLayers
    \/ AsyncPullLayers
    \/ LocateModule
    \/ RunWasm

\* the stages a run has passed when the manifest is pulled
PulledPrefix ==
    << Event("create_dirs", TRUE), Event("new", TRUE), Event("evidence", TRUE),
       Event("pull_init", TRUE), Event("pull_manifest", TRUE) >>

\* an encrypted WASM image of one layer with a minimal configuration
EncryptedWasmImage ==
    [config_media_type |-> MT_CONFIG_WASM,
     layers |-> << [media_type |-> MT_WASM_ENC, digest |-> <<"sha256:", "aa11">>] >>]

\* the run is about to search the store directory of the first layer
InitLocate ==
    /\ NoCallers
    /\ RegIdle
    /\ pc = "locate"
    /\ args = ArgsOf(<<>>, <<>>)
    /\ manifest = EncryptedWasmImage
    /\ config = UnparsableConfig
    /\ is_wasm_image = TRUE
    /\ is_encrypted = TRUE
    /\ route = "LayeredPull"
    /\ events = PulledPrefix \o << Event("config_parse", FALSE), Event("pull_layers", TRUE) >>
    /\ blobCall = <<>>
    /\ stream = <<>>
    /\ file = NoFile
    /\ pullCall = << [layers |-> EncryptedWasmImage.layers,
                      diff_ids |-> DiffIdsVec(DefaultConfig, EncryptedWasmImage.layers, TRUE),
                      decrypt_config |-> DecryptConfig(TRUE)] >>
    /\ layer_metas = << [store_path |-> Join(LAYER_STORE_PATH, <<"aa11">>)] >>
    /\ storeDir \in Dirs
    /\ wasm_path = <<>>
    /\ cmd = <<>>
    /\ error = NoError
    /\ exitCode = -1

NextLocate == LocateModule

\* a plain WASM image of one layer
PlainWasmImage(digest) ==
    [config_media_type |-> MT_CONFIG_WASM,
     layers |-> << [media_type |-> MT_WASM, digest |-> digest] >>]

\* the run is about to start the runtime on a module pulled as a blob
InitInvoke ==
    /\ NoCallers
    /\ RegIdle
    /\ pc = "run_wasm"
    /\ args \in AllArgs
    /\ \E d \in Digests :
         /\ manifest = PlainWasmImage(d)
         /\ blobCall = << Head(PlainWasmImage(d).layers) >>
         /\ wasm_path = Join(LAYER_STORE_PATH, WasmFilename(d))
    /\ config = UnparsableConfig
    /\ is_wasm_image = TRUE
    /\ is_encrypted = FALSE
    /\ route = "DirectBlob"
    /\ events = PulledPrefix \o << Event("pull_blob_stream", TRUE), Event("create_file", TRUE),
                                  Event("chunk", TRUE), Event("sync_all", TRUE) >>
    /\ stream = <<>>
    /\ file = [created |-> TRUE, chunks |-> <<1>>, synced |-> TRUE]
    /\ pullCall = <<>>
    /\ layer_metas = <<>>
    /\ storeDir = NoDir
    /\ cmd = <<>>
    /\ error = NoError
    /\ exitCode = -1

NextInvoke == RunWasm

vars == <<kekVars, regVars, runVars>>

Spec == Init /\ [][Next]_vars

SpecLocate == InitLocate /\ [][NextLocate]_vars

SpecInvoke == InitInvoke /\ [][NextInvoke]_vars

SpecKek == InitKek /\ [][NextKek]_vars

SpecFetch == InitFetch /\ [][NextKek]_vars

SpecReg == InitReg /\ [][NextReg]_vars

-----------------------------------------------------------------------------
(* Properties of the run (Spec)                                             *)

\* the media types that hold the marker "wasm" / "encrypted", by inspection
WasmTypes == {MT_WASM, MT_WASM_ENC, MT_CONFIG_WASM}

EncryptedTypes == {MT_WASM_ENC, MT_TAR_ENC}

WasmManifest(m) ==
    \/ m.config_media_type \in WasmTypes
    \/ \E i \in 1..Len(m.layers) : m.layers[i].media_type \in WasmTypes

EncryptedManifest(m) ==
    \E i \in 1..Len(m.layers) : m.layers[i].media_type \in EncryptedTypes

\* C1: for every manifest the DirectBlob path (pull_blob_stream on the first
\* layer, never async_pull_layers) is taken if and only if the image is WASM
\* and not encrypted, the LayeredPull path (async_pull_layers, never
\* pull_blob_stream) in the three other cases; one path per run.
C1_OnePathByClassification ==
    /\ route # "none" =>
          /\ route = "DirectBlob" <=>
                WasmManifest(manifest) /\ ~EncryptedManifest(manifest)
          /\ route = "LayeredPull" <=>
                ~WasmManifest(manifest) \/ EncryptedManifest(manifest)
    /\ blobCall # <<>> => route = "DirectBlob" /\ blobCall = << Head(manifest.layers) >>
    /\ pullCall # <<>> => route = "LayeredPull" /\ Len(pullCall) = 1
    /\ blobCall = <<>> \/ pullCall = <<>>
    /\ pc \in {"pull_layers", "locate"} => pullCall # <<>>
    /\ pc \in {"create_file", "stream"} => blobCall # <<>>
    /\ pc = "run_wasm" => (blobCall # <<>> /\ file.synced) \/ pullCall # <<>>

\* C1 witness: an encrypted WASM image went down the LayeredPull path
C1_Witness ==
    /\ WasmManifest(manifest) /\ EncryptedManifest(manifest)
    /\ route = "LayeredPull"
    /\ pullCall # <<>>
    /\ blobCall = <<>>

EmptyPlaceholders(n) == [i \in 1..n |-> <<>>]

\* C4 as stated: every encrypted image takes the LayeredPull path, the
\* decryption-configuration token is passed to async_pull_layers, and the
\* diff-id list passed consists of empty placeholders.
C4_EncryptedPullsWithPlaceholders ==
    route # "none" /\ EncryptedManifest(manifest) =>
        /\ route = "LayeredPull"
        /\ pullCall # <<>> =>
              /\ pullCall[1].decrypt_config = <<"provider:attestation-agent">>
              /\ pullCall[1].diff_ids = EmptyPlaceholders(Len(manifest.layers))

\* C4 amended: every encrypted image takes the LayeredPull path and the
\* decryption-configuration token is passed to async_pull_layers; the diff-id
\* list passed consists of empty placeholders, one per layer, when the
\* configuration (parsed or default) carries no diff-ids, and is the
\* configuration's own list otherwise.
C4_EncryptedPullsWithToken ==
    route # "none" /\ EncryptedManifest(manifest) =>
        /\ route = "LayeredPull"
        /\ blobCall = <<>>
        /\ pullCall # <<>> =>
              /\ pullCall[1].decrypt_config = <<"provider:attestation-agent">>
              /\ pullCall[1].layers = manifest.layers
              /\ IF config.parses /\ config.diff_ids # <<>>
                 THEN pullCall[1].diff_ids = config.diff_ids
                 ELSE pullCall[1].diff_ids = EmptyPlaceholders(Len(manifest.layers))

\* C4 witness: an encrypted image of two layers was pulled with the token and
\* two empty placeholders
C4_Witness ==
    /\ EncryptedManifest(manifest)
    /\ Len(manifest.layers) = 2
    /\ pullCall # <<>>
    /\ pullCall[1].decrypt_config = <<"provider:attestation-agent">>
    /\ pullCall[1].diff_ids = << <<>>, <<>> >>

\* C5: on the LayeredPull path, when the configuration (parsed or default)
\* carries no diff-ids, async_pull_layers gets one diff-id per manifest layer
\* in layer order, the layer's digest when the image is not encrypted and the
\* empty string when it is; when the configuration carries a diff-id, its
\* list is passed unchanged.
C5_DiffIdsPassed ==
    pullCall # <<>> =>
        /\ pullCall[1].layers = manifest.layers
        /\ IF config.parses /\ config.diff_ids # <<>>
           THEN pullCall[1].diff_ids = config.diff_ids
           ELSE /\ Len(pullCall[1].diff_ids) = Len(manifest.layers)
                /\ \A i \in 1..Len(manifest.layers) :
                      pullCall[1].diff_ids[i] =
                          IF EncryptedManifest(manifest) THEN <<>>
                          ELSE manifest.layers[i].digest

\* C5 witness: a plain image of two layers with different digests and a
\* configuration without diff-ids was pulled with the two digests in order
C5_Witness ==
    /\ pullCall # <<>>
    /\ ~EncryptedManifest(manifest)
    /\ config.diff_ids = <<>>
    /\ Len(manifest.layers) = 2
    /\ manifest.layers[1].digest # manifest.layers[2].digest
    /\ pullCall[1].diff_ids = << manifest.layers[1].digest, manifest.layers[2].digest >>

\* the stages that ended in an error
Failed(i) == ~events[i].ok

\* C7: a failure of a stage is never retried and ends the process with a
\* non-zero exit; the one failure after which the run goes on is that of
\* parsing the image configuration, and it goes on with the default
\* configuration.
C7_FailuresEndTheRun ==
    /\ \A i \in 1..Len(events) :
          Failed(i) /\ events[i].stage # "config_parse" =>
              i = Len(events) /\ pc = "exited" /\ exitCode = 1
    /\ \A i, j \in 1..Len(events) :
          i < j /\ events[i].stage = events[j].stage =>
              events[i].stage = "chunk" /\ events[i].ok
    /\ \A i \in 1..Len(events) :
          Failed(i) /\ events[i].stage = "config_parse" =>
              /\ pullCall # <<>>
              /\ Len(pullCall[1].diff_ids) = Len(manifest.layers)
              /\ i = Len(events) => pc = "pull_layers" /\ exitCode = -1
    /\ exitCode = 0 =>
          \A i \in 1..Len(events) : Failed(i) => events[i].stage = "config_parse"
    /\ pc = "exited" <=> exitCode # -1

\* C7 witness: the configuration did not parse, the run went on, and the
\* runtime's failure then ended the process with exit code 1
C7_Witness ==
    /\ \E i \in 1..Len(events) : events[i] = Event("config_parse", FALSE)
    /\ events # <<>> /\ Last(events) = Event("run_wasm", FALSE)
    /\ exitCode = 1

\* the place of a stage in the claimed order
StageOrder(stage) ==
    CASE stage = "create_dirs" -> 0
      [] stage = "new" -> 1
      [] stage = "evidence" -> 2
      [] stage = "pull_init" -> 3
      [] stage = "pull_manifest" -> 4
      [] stage \in {"first_layer", "pull_blob_stream", "config_parse"} -> 5
      [] stage \in {"create_file", "pull_layers"} -> 6
      [] stage = "chunk" -> 7
      [] stage = "sync_all" -> 8
      [] stage = "locate" -> 9
      [] stage = "run_wasm" -> 10

BlobStages == {"first_layer", "pull_blob_stream", "create_file", "chunk", "sync_all"}

LayerStages == {"config_parse", "pull_layers", "locate"}

Succeeded(stage) == \E i \in 1..Len(events) : events[i] = Event(stage, TRUE)

Happened(stage) == \E i \in 1..Len(events) : events[i].stage = stage

ChunksWritten == Cardinality({ i \in 1..Len(events) : events[i] = Event("chunk", TRUE) })

\* C12: the stages of a run follow one another in the order evidence,
\* manifest pull, blob stream or layer pull (never both), module location,
\* runtime; the runtime is started at most once, and only after the evidence
\* was obtained and a module path was returned, which on the direct path
\* means that every chunk of the stream was written and the file synced.
C12_StageOrder ==
    /\ \A i, j \in 1..Len(events) :
          i < j => \/ StageOrder(events[i].stage) < StageOrder(events[j].stage)
                   \/ events[i].stage = "chunk" /\ events[j].stage = "chunk"
    /\ ~ /\ \E stage \in BlobStages : Happened(stage)
         /\ \E stage \in LayerStages : Happened(stage)
    /\ pc = "stream" => file.chunks \o stream \in Blobs
    /\ Len(cmd) <= 1
    /\ Happened("run_wasm") <=> cmd # <<>>
    /\ cmd # <<>> =>
          /\ Succeeded("evidence")
          /\ Succeeded("pull_manifest")
          /\ wasm_path # <<>>
          /\ Last(events).stage = "run_wasm"
          /\ route = "DirectBlob" =>
                /\ Succeeded("pull_blob_stream")
                /\ Succeeded("sync_all")
                /\ file.created /\ file.synced
                /\ stream = <<>>
                /\ file.chunks \in Blobs
                /\ ChunksWritten = Len(file.chunks)
          /\ route = "LayeredPull" =>
                /\ Succeeded("pull_layers")
                /\ Succeeded("locate")

\* C12 witness: on the direct path a stream of two chunks was written and
\* synced, and the runtime was then started, once
C12_Witness ==
    /\ route = "DirectBlob"
    /\ Len(cmd) = 1
    /\ file.chunks = <<1, 2>>
    /\ file.synced
    /\ ChunksWritten = 2
    /\ Succeeded("evidence")
    /\ exitCode = 0

-----------------------------------------------------------------------------
(* Properties of the module search (SpecLocate)                             *)

\* the names with extension "wasm", by inspection
WasmNames == { MODULE_WASM, <<"a", ".", "wasm">>, <<"b", ".", "wasm">> }

\* the positions read_dir yields at which a regular file named *.wasm stands
WasmFilesAt(dir) ==
    { i \in 1..Len(dir.entries) :
        /\ dir.readable
        /\ dir.entries[i].ok
        /\ dir.entries[i].kind = "file"
        /\ dir.entries[i].name \in WasmNames }

Min(S) == CHOOSE x \in S : \A y \in S : x <= y

ModuleWasmIsFile(dir) ==
    \E i \in 1..Len(dir.entries) : dir.entries[i] \in
        { [name |-> MODULE_WASM, kind |-> "file", ok |-> b] : b \in BOOLEAN }

Searched == events # <<>> /\ Last(events).stage = "locate" /\ layer_metas # <<>>

\* C9: given the first layer's store path, the search returns module.wasm of
\* that directory whenever it is a regular file; otherwise the first entry the
\* enumeration yields that is a regular file with extension wasm; and fails
\* with a not-found error naming the searched path exactly when there is
\* neither.
C9_LocateModule ==
    Searched =>
        LET store_path == Head(layer_metas).store_path IN
        IF ModuleWasmIsFile(storeDir) THEN
            /\ Last(events).ok
            /\ wasm_path = Append(store_path, MODULE_WASM)
        ELSE IF WasmFilesAt(storeDir) # {} THEN
            /\ Last(events).ok
            /\ wasm_path = Append(store_path, storeDir.entries[Min(WasmFilesAt(storeDir))].name)
        ELSE
            /\ ~Last(events).ok
            /\ wasm_path = <<>>
            /\ error = [kind |-> "no_wasm_file_found", path |-> store_path]
            /\ exitCode = 1

\* C9 witness: without module.wasm, the second entry, the first *.wasm file,
\* was returned
C9_Witness ==
    /\ Searched
    /\ ~ModuleWasmIsFile(storeDir)
    /\ Min(WasmFilesAt(storeDir) \cup {3}) = 2
    /\ wasm_path = Append(Head(layer_metas).store_path, storeDir.entries[2].name)

-----------------------------------------------------------------------------
(* Properties of the runtime's command line (SpecInvoke)                    *)

InvokeLen == IF args.invoke = <<>> THEN 0 ELSE 2

\* C10: with or without an invoke target, with or without extra arguments,
\* the argument list is ["--invoke", target] if a target is given, then
\* "--dir", workDir, modulePath, then the user arguments in their order, and
\* nothing else.
C10_ArgumentOrder ==
    cmd # <<>> =>
        /\ Len(cmd) = 1
        /\ cmd[1].program = "wasmtime"
        /\ Len(cmd[1].args) = InvokeLen + 3 + Len(args.wasm_args)
        /\ args.invoke # <<>> =>
              cmd[1].args[1] = <<"--invoke">> /\ cmd[1].args[2] = args.invoke[1]
        /\ cmd[1].args[InvokeLen + 1] = <<"--dir">>
        /\ cmd[1].args[InvokeLen + 2] = <<"/", "tmp", "/", "tee-wasm-runner">>
        /\ cmd[1].args[InvokeLen + 3] = PathText(wasm_path)
        /\ \A i \in 1..Len(args.wasm_args) :
              cmd[1].args[InvokeLen + 3 + i] = args.wasm_args[i]

\* C10 witness: the runtime was started with an invoke target and two
\* different extra arguments
C10_Witness ==
    /\ cmd # <<>>
    /\ args.invoke # <<>>
    /\ Len(args.wasm_args) = 2
    /\ args.wasm_args[1] # args.wasm_args[2]
    /\ Len(cmd[1].args) = 7

-----------------------------------------------------------------------------
(* Properties of get_kek's normalization (SpecKek)                          *)

\* the call of p returned from the normalization of the broker's answer
Normalized(p) ==
    /\ kpc[p] = "done"
    /\ kresult[p].err \notin
          {"none", "parse_resource_uri", "evidence_provider", "build_client",
           "get_resource"}

\* the answer, read as text and trimmed, is the base64 text of 32 bytes
DecodesToKey(r) ==
    LET d == B64Decode(AsBytes(Trim(Utf8Lossy(r))))
    IN  d.ok /\ Len(d.bytes) = KeyLen

TrimmedDecodes(r) == B64Decode(AsBytes(Trim(Utf8Lossy(r))))

Unacceptable(r) == Len(r) # KeyLen /\ ~DecodesToKey(r)

\* C2 as stated: an answer that is neither 32 bytes long nor, trimmed, the
\* base64 text of 32 bytes makes the normalization fail, and the failure
\* reports the original length and the decoded length.
C2_FailureReportsBothLengths ==
    \A p \in callers :
        Normalized(p) /\ Unacceptable(kbsResource) =>
            /\ ~kresult[p].ok
            /\ <<"original_len", Len(kbsResource)>> \in kresult[p].fields
            /\ \E n \in 0..Len(kbsResource) : <<"decoded_len", n>> \in kresult[p].fields

\* C2 amended: such an answer makes the normalization fail and the failure
\* always reports the original length; it reports the decoded length exactly
\* when the trimmed text is valid base64 (of some other length), and quotes
\* the trimmed text instead when the base64 decoding itself fails.
C2_FailureReportsLengths ==
    \A p \in callers :
        Normalized(p) /\ Unacceptable(kbsResource) =>
            /\ ~kresult[p].ok
            /\ <<"original_len", Len(kbsResource)>> \in kresult[p].fields
            /\ IF TrimmedDecodes(kbsResource).ok
               THEN kresult[p].fields =
                       { <<"original_len", Len(kbsResource)>>,
                         <<"decoded_len", Len(TrimmedDecodes(kbsResource).bytes)>> }
               ELSE /\ kresult[p].fields = { <<"original_len", Len(kbsResource)>> }
                    /\ kresult[p].data = Trim(Utf8Lossy(kbsResource))

\* C2 witness: the base64 text of 31 bytes was refused, both lengths reported
C2_Witness ==
    \E p \in callers :
        /\ Normalized(p)
        /\ Unacceptable(kbsResource)
        /\ ~kresult[p].ok
        /\ <<"decoded_len", 31>> \in kresult[p].fields

\* the answers w1 ++ base64(k) ++ w2 with k of 32 bytes
WrappedKeys == { w \in Wrapped : Len(w.payload) = KeyLen }

\* C3: when the answer is the base64 text of a 32-byte value k between any
\* leading and trailing whitespace, the normalization succeeds and returns k.
C3_WrappedKeyRecovered ==
    \A p \in callers : \A w \in WrappedKeys :
        Normalized(p) /\ kbsResource = w.bytes /\ Len(w.bytes) # KeyLen =>
            kresult[p].ok /\ kresult[p].key = w.payload

\* C3 witness: a key arrived with whitespace on both sides and was recovered
C3_Witness ==
    \E p \in callers : \E w \in WrappedKeys :
        /\ kpc[p] = "done"
        /\ kbsResource = w.bytes
        /\ IsWhitespace(Head(Utf8Lossy(kbsResource)))
        /\ IsWhitespace(Last(Utf8Lossy(kbsResource)))
        /\ kresult[p].ok
        /\ kresult[p].key = w.payload

\* C11: an answer of exactly 32 bytes is returned unchanged, whatever it
\* would read as: text, whitespace to trim, base64 or ill-formed UTF-8 (no
\* interpretation, trimming or decoding shows in the result).
C11_KeySizedAnswerUnchanged ==
    \A p \in callers :
        Normalized(p) /\ Len(kbsResource) = KeyLen =>
            /\ kresult[p].ok
            /\ kresult[p].key = kbsResource
            /\ kresult[p].fields = {}

\* C11 witness: 32 bytes that are valid base64 text of 24 bytes came back as
\* they were
C11_Witness ==
    \E p \in callers :
        /\ Normalized(p)
        /\ Len(kbsResource) = KeyLen
        /\ TrimmedDecodes(kbsResource).ok
        /\ Len(TrimmedDecodes(kbsResource).bytes) = 24
        /\ kresult[p].ok
        /\ kresult[p].key = kbsResource

-----------------------------------------------------------------------------
(* Properties of register_kek (SpecReg)                                     *)

\* C6: register_kek returns its acknowledgement only when the broker answered
\* the POST with a success status; any other status is returned as an error.
C6_AckOnlyOnSuccessStatus ==
    rpc = "done" /\ rstatus # 0 =>
        (rresult = "ok" <=> IsSuccess(rstatus))

-----------------------------------------------------------------------------
(* Properties of the clients get_kek builds (SpecFetch)                     *)

\* C8: over all calls of get_kek in the process at most one broker client is
\* built, and every call that runs uses that one instance.
C8_AtMostOneClient ==
    /\ clientsBuilt <= 1
    /\ \A p \in callers : kpc[p] = "awaiting" => kclient[p] = 1

====
